---------------------------- MODULE Spec2Model ----------------------------
(***************************************************************************)
(* The ID relation index of Main (blenkernel/intern/main.c):               *)
(* BKE_main_relations_create, main_relations_create_idlink_cb,             *)
(* BKE_main_relations_free and BKE_main_relations_tag_set, over a small    *)
(* Main database of ID data-blocks.                                        *)
(*                                                                         *)
(* Pointers are naturals, NULL is 0.  Bit masks (cb_flag, the relations    *)
(* flag, the entry tags) are sets of bit names: `|` is \cup, `& ~` is \.   *)
(***************************************************************************)
EXTENDS Naturals, Sequences, FiniteSets

VARIABLES
  listbases,     \* Main's ListBases: ID type -> sequence of ID pointers
  id_pointers,   \* the ID pointer fields of every ID: ID -> sequence of ID pointers
  session_uuids, \* id->session_uuid of the data-block at every ID address
  relations,     \* bmain->relations: <<>> when NULL, else <<the MainIDRelations>>
  heap,          \* guarded-allocator bookkeeping: block kind -> live blocks
  double_free,   \* a block was released that was not live
  last_op,       \* the most recent call on this Main
  last_bf,       \* the most recent of relations_create / relations_free
  nmut,          \* number of changes made to the Main database so far
  tag_pair,      \* the tag_set(tag, true) being undone: its tag, the tags before it
  gsets,         \* the GSets of the callers: GSet pointer -> its keys, in order of insertion
  gset_call,     \* the last call of BKE_main_gset_create: argument, result, GSets before
  lock,          \* bmain->lock: the thread that holds it, or NoThread
  thread,        \* every thread: the call it is in, whether under the lock, its position
  crashed,       \* a thread dereferenced NULL or released storage
  all_locked,    \* every call so far was made between BKE_main_lock and BKE_main_unlock
  observations,  \* what the lookups saw, each with all_locked at that time
  sheet_query,   \* the last query: the data source or index asked, and for what
  sheet_result   \* what the last query returned

mainvars == <<listbases, id_pointers, session_uuids, relations, heap, double_free,
              last_op, last_bf, nmut>>

\* State of the callers, which the calls on Main leave alone.
tagvars == <<tag_pair>>

gsetvars == <<gsets, gset_call>>

threadvars == <<lock, thread, crashed, all_locked, observations>>

sheetvars == <<sheet_query, sheet_result>>

auxvars == <<tagvars, gsetvars, threadvars, sheetvars>>

vars == <<mainvars, auxvars>>

(* ------------------------------ bounds --------------------------------- *)

\* Changes to the Main database (pointer assignments, IDs added or removed)
\* made by the rest of the application in one behaviour.
MaxMutations == 1

\* GSets that the callers of BKE_main_gset_create have it create.
MaxGSets == 2

(* -------------------------- the Main database --------------------------- *)

NULL == 0

MAIN_ID_SESSION_UUID_UNSET == 0

\* The ID data-blocks (their addresses) and their ID types.
IDs == {1, 2, 3}

IDTypes == {"ID_OB", "ID_SCR"}

GS(id) == IF id = 3 THEN "ID_SCR" ELSE "ID_OB"

\* id->session_uuid: unique, never MAIN_ID_SESSION_UUID_UNSET, not the address.
session_uuid(id) == session_uuids[id]

\* The ID pointer fields an ID type declares, in the order they are visited:
\* the usage flags the walker reports for the field, and whether the field is
\* only visited with IDWALK_INCLUDE_UI.
IDPointerFields(idtype) ==
  IF idtype = "ID_OB"
    THEN << [cb_flag |-> {}, ui |-> FALSE] >>
    ELSE << [cb_flag |-> {"IDWALK_CB_USER"}, ui |-> FALSE],
            [cb_flag |-> {"IDWALK_CB_USER"}, ui |-> FALSE],
            [cb_flag |-> {"IDWALK_CB_USER_ONE"}, ui |-> TRUE] >>

\* What an ID pointer field may hold: NULL or (the address of) an object.
PointerValues == {NULL, 1, 2}

\* set_listbasepointers: the ListBases in the order of the lb[] array
\* (lb[INDEX_ID_SCR] comes before lb[INDEX_ID_OB]).
set_listbasepointers == << "ID_SCR", "ID_OB" >>

RECURSIVE Reverse(_)
Reverse(s) == IF s = <<>> THEN <<>> ELSE Reverse(Tail(s)) \o <<Head(s)>>

RECURSIVE ConcatListbases(_, _)
ConcatListbases(lbs, order) ==
  IF order = <<>> THEN <<>>
  ELSE lbs[Head(order)] \o ConcatListbases(lbs, Tail(order))

\* FOREACH_MAIN_ID_BEGIN: `while (a--)` over the lb[] array, each ListBase
\* from first to last.
ForeachMainID(lbs) == ConcatListbases(lbs, Reverse(set_listbasepointers))

Range(s) == {s[i] : i \in 1..Len(s)}

MainIDs == Range(ForeachMainID(listbases))

(* ------------------------ MainIDRelations ------------------------------- *)

RECURSIVE ListItemsThroughPointers(_, _)
ListItemsThroughPointers(pool, head) ==
  IF head = NULL THEN <<>>
  ELSE LET it == pool[head]
           now == IF it.id_pointer[1] = "from" THEN session_uuid(it.id_pointer[2])
                  ELSE IF id_pointers[it.id_pointer[2]][it.id_pointer[3]] # NULL
                         THEN session_uuid(id_pointers[it.id_pointer[2]][it.id_pointer[3]])
                         ELSE MAIN_ID_SESSION_UUID_UNSET
       IN  << [it EXCEPT !.session_uuid = now] >>
           \o ListItemsThroughPointers(pool, it.next)

\* A linked list of MainIDRelationsEntryItem, from its head pointer.  Items
\* live in the mempool; an item pointer is its index in the pool.
RECURSIVE ListItems(_, _)
ListItems(pool, head) ==
  IF head = NULL THEN <<>>
  ELSE <<pool[head]>> \o ListItems(pool, pool[head].next)

\* Positions of the entries stored under `key` in the GHash.
GHashSlots(gh, key) == {i \in 1..Len(gh) : gh[i].key = key}

\* BLI_ghash_ensure_p followed by MEM_callocN and the session_uuid stamp when
\* the key is new; the BLI_assert on the stamp when it is not.
EnsureEntryAlways(rel, id) ==
  [rel EXCEPT !.relations_from_pointers =
     Append(@, [key |-> id, session_uuid |-> session_uuid(id),
                to_ids |-> NULL, from_ids |-> NULL, tags |-> {}])]

EnsureEntryNoStamp(rel, id) ==
  IF GHashSlots(rel.relations_from_pointers, id) = {}
    THEN [rel EXCEPT !.relations_from_pointers =
            Append(@, [key |-> id, session_uuid |-> MAIN_ID_SESSION_UUID_UNSET,
                       to_ids |-> NULL, from_ids |-> NULL, tags |-> {}])]
    ELSE LET i == CHOOSE i \in GHashSlots(rel.relations_from_pointers, id) : TRUE
         IN  [rel EXCEPT !.assert_failed =
                @ \/ rel.relations_from_pointers[i].session_uuid # session_uuid(id)]

EnsureEntry(rel, id) ==
  IF GHashSlots(rel.relations_from_pointers, id) = {}
    THEN [rel EXCEPT !.relations_from_pointers =
            Append(@, [key |-> id, session_uuid |-> session_uuid(id),
                       to_ids |-> NULL, from_ids |-> NULL, tags |-> {}])]
    ELSE LET i == CHOOSE i \in GHashSlots(rel.relations_from_pointers, id) : TRUE
         IN  [rel EXCEPT !.assert_failed =
                @ \/ rel.relations_from_pointers[i].session_uuid # session_uuid(id)]

EntrySlot(rel, id) == CHOOSE i \in GHashSlots(rel.relations_from_pointers, id) : TRUE

\* "Add `id_pointer` as child of `id_self`": a new pool item linked in as the
\* head of the to_ids list of id_self's entry.
AddToID(rel, id_self, fld, cb_flag) ==
  LET ptr  == id_pointers[id_self][fld]
      i    == EntrySlot(rel, id_self)
      item == [next |-> rel.relations_from_pointers[i].to_ids,
               id_pointer |-> <<"to", id_self, fld>>,
               session_uuid |-> IF ptr # NULL THEN session_uuid(ptr)
                                ELSE MAIN_ID_SESSION_UUID_UNSET,
               usage_flag |-> cb_flag]
  IN  [rel EXCEPT !.entry_items_pool = Append(@, item),
                  !.relations_from_pointers[i].to_ids = Len(rel.entry_items_pool) + 1]

\* The last item of the list that starts at `head` (head is not NULL).
RECURSIVE ListTail(_, _)
ListTail(pool, head) ==
  IF pool[head].next = NULL THEN head ELSE ListTail(pool, pool[head].next)

AddFromIDAtTail(rel, id_self, fld, cb_flag) ==
  LET ptr  == id_pointers[id_self][fld]
      i    == CHOOSE i \in GHashSlots(rel.relations_from_pointers, ptr) : TRUE
      head == rel.relations_from_pointers[i].from_ids
      new  == Len(rel.entry_items_pool) + 1
      item == [next |-> NULL,
               id_pointer |-> <<"from", id_self>>,
               session_uuid |-> session_uuid(id_self),
               usage_flag |-> cb_flag]
  IN  IF head = NULL
        THEN [rel EXCEPT !.entry_items_pool = Append(@, item),
                         !.relations_from_pointers[i].from_ids = new]
        ELSE [rel EXCEPT !.entry_items_pool =
                Append([@ EXCEPT ![ListTail(@, head)].next = new], item)]

AddFromIDOnce(rel, id_self, fld, cb_flag) ==
  LET ptr  == id_pointers[id_self][fld]
      i    == CHOOSE i \in GHashSlots(rel.relations_from_pointers, ptr) : TRUE
      from == ListItems(rel.entry_items_pool, rel.relations_from_pointers[i].from_ids)
      item == [next |-> rel.relations_from_pointers[i].from_ids,
               id_pointer |-> <<"from", id_self>>,
               session_uuid |-> session_uuid(id_self),
               usage_flag |-> cb_flag]
  IN  IF \E k \in 1..Len(from) : from[k].id_pointer = <<"from", id_self>>
        THEN rel
        ELSE [rel EXCEPT !.entry_items_pool = Append(@, item),
                         !.relations_from_pointers[i].from_ids =
                            Len(rel.entry_items_pool) + 1]

AddFromIDTargetStamp(rel, id_self, fld, cb_flag) ==
  LET ptr  == id_pointers[id_self][fld]
      i    == CHOOSE i \in GHashSlots(rel.relations_from_pointers, ptr) : TRUE
      item == [next |-> rel.relations_from_pointers[i].from_ids,
               id_pointer |-> <<"from", id_self>>,
               session_uuid |-> session_uuid(ptr),
               usage_flag |-> cb_flag]
  IN  [rel EXCEPT !.entry_items_pool = Append(@, item),
                  !.relations_from_pointers[i].from_ids = Len(rel.entry_items_pool) + 1]

\* "Add `id_self` as parent of `id_pointer`": a new pool item linked in as the
\* head of the from_ids list of the entry of the ID pointed to.
AddFromID(rel, id_self, fld, cb_flag) ==
  LET ptr  == id_pointers[id_self][fld]
      i    == EntrySlot(rel, ptr)
      item == [next |-> rel.relations_from_pointers[i].from_ids,
               id_pointer |-> <<"from", id_self>>,
               session_uuid |-> session_uuid(id_self),
               usage_flag |-> cb_flag]
  IN  [rel EXCEPT !.entry_items_pool = Append(@, item),
                  !.relations_from_pointers[i].from_ids = Len(rel.entry_items_pool) + 1]

main_relations_create_idlink_cb(rel, id_self, fld, cb_flag) ==
  IF id_pointers[id_self][fld] # NULL
    THEN LET r1 == AddToID(EnsureEntry(rel, id_self), id_self, fld, cb_flag)
         IN  IF id_pointers[id_self][fld] # NULL
               THEN AddFromID(EnsureEntry(r1, id_pointers[id_self][fld]),
                              id_self, fld, cb_flag)
               ELSE r1
    ELSE rel

\* BKE_library_foreach_ID_link(NULL, id, callback, user_data, idwalk_flag):
\* the callback once per ID pointer field of the ID, NULL or not, in the order
\* of the ID type; UI fields only with IDWALK_INCLUDE_UI.
RECURSIVE BKE_library_foreach_ID_link(_, _, _, _)
BKE_library_foreach_ID_link(rel, id, fld, idwalk_flag) ==
  LET fields == IDPointerFields(GS(id)) IN
  IF fld > Len(fields) THEN rel
  ELSE LET next == IF fields[fld].ui /\ "IDWALK_INCLUDE_UI" \notin idwalk_flag
                     THEN rel
                     ELSE main_relations_create_idlink_cb(rel, id, fld, fields[fld].cb_flag)
       IN  BKE_library_foreach_ID_link(next, id, fld + 1, idwalk_flag)

idwalk_flag_include_ui(flag) == {"IDWALK_READONLY", "IDWALK_INCLUDE_UI"}

\* const int idwalk_flag = IDWALK_READONLY |
\*     ((flag & MAINIDRELATIONS_INCLUDE_UI) != 0 ? IDWALK_INCLUDE_UI : 0);
idwalk_flag(flag) ==
  {"IDWALK_READONLY"} \cup (IF "MAINIDRELATIONS_INCLUDE_UI" \in flag
                              THEN {"IDWALK_INCLUDE_UI"} ELSE {})

RelationsCreateIDNoEnsure(rel, id) ==
  BKE_library_foreach_ID_link(rel, id, 1, idwalk_flag(rel.flag))

\* The body of the FOREACH_MAIN_ID loop of BKE_main_relations_create.
RelationsCreateID(rel, id) ==
  BKE_library_foreach_ID_link(EnsureEntry(rel, id), id, 1, idwalk_flag(rel.flag))

RECURSIVE RelationsCreateLoop(_, _)
RelationsCreateLoop(rel, ids) ==
  IF ids = <<>> THEN rel
  ELSE RelationsCreateLoop(RelationsCreateID(rel, Head(ids)), Tail(ids))

\* MEM_mallocN / BLI_ghash_new / BLI_mempool_create, and their release.
BlockKinds == {"MainIDRelations", "GHash", "BLI_mempool"}

MemAlloc(h, blocks) == [b \in BlockKinds |-> IF b \in blocks THEN h[b] + 1 ELSE h[b]]

MemFree(h, blocks) ==
  [b \in BlockKinds |-> IF b \in blocks /\ h[b] > 0 THEN h[b] - 1 ELSE h[b]]

MemFreeBad(h, blocks) == \E b \in blocks : h[b] = 0

(* ------------------------------ actions --------------------------------- *)

\* bmain->relations == NULL.
NoRelations == <<>>

CreateOps == {"create", "create_twice", "create_stale", "create_tagged"}

FreeOps == {"free", "free_noop"}

\* The state BKE_main_relations_free leaves: <<relations, heap, double_free>>.
RelationsFreedNoGuard(rels, h, df) ==
  << NoRelations, MemFree(h, BlockKinds), df \/ MemFreeBad(h, BlockKinds) >>

RelationsFreedNotReset(rels, h, df) ==
  IF rels # NoRelations
    THEN << rels, MemFree(h, BlockKinds), df \/ MemFreeBad(h, BlockKinds) >>
    ELSE << rels, h, df >>

RelationsFreed(rels, h, df) ==
  IF rels # NoRelations
    THEN << NoRelations, MemFree(h, BlockKinds), df \/ MemFreeBad(h, BlockKinds) >>
    ELSE << rels, h, df >>

\* The MainIDRelations that BKE_main_relations_create allocates and fills.
RelationsCreated(flag) ==
  << RelationsCreateLoop([relations_from_pointers |-> <<>>,
                          entry_items_pool |-> <<>>,
                          flag |-> flag,
                          assert_failed |-> FALSE],
                         ForeachMainID(listbases)) >>

\* Which call of BKE_main_relations_create this is, for the record of calls.
CreateOp ==
  IF relations = NoRelations THEN "create"
  ELSE IF last_op \in CreateOps THEN "create_twice"
  ELSE IF last_op = "main_changed" THEN "create_stale"
  ELSE "create_tagged"

BKE_main_relations_create_clear_pointers(flag) ==
  /\ relations' = RelationsCreated(flag)
  /\ heap' = MemAlloc(MemFree(heap, BlockKinds), BlockKinds)
  /\ id_pointers' = [id \in IDs |-> IF id \in MainIDs
                                      THEN [f \in 1..Len(id_pointers[id]) |-> NULL]
                                      ELSE id_pointers[id]]
  /\ last_op' = CreateOp
  /\ last_bf' = "create"
  /\ UNCHANGED <<listbases, session_uuids, double_free, nmut>>

BKE_main_relations_create_keep(flag) ==
  /\ relations' = IF relations = NoRelations THEN RelationsCreated(flag)
                  ELSE << RelationsCreateLoop([relations[1] EXCEPT !.flag = flag],
                                              ForeachMainID(listbases)) >>
  /\ heap' = MemAlloc(heap, BlockKinds \ {b \in BlockKinds : heap[b] > 0})
  /\ last_op' = CreateOp
  /\ last_bf' = "create"
  /\ UNCHANGED <<listbases, id_pointers, session_uuids, double_free, nmut>>

BKE_main_relations_create(flag) ==
  LET freed == IF relations # NoRelations
                 THEN RelationsFreed(relations, heap, double_free)
                 ELSE << relations, heap, double_free >>
  IN  /\ relations' = RelationsCreated(flag)
      /\ heap' = MemAlloc(freed[2], BlockKinds)
      /\ double_free' = freed[3]
      /\ last_op' = CreateOp
      /\ last_bf' = "create"
      /\ UNCHANGED <<listbases, id_pointers, session_uuids, nmut>>

BKE_main_relations_free ==
  LET freed == RelationsFreed(relations, heap, double_free)
  IN  /\ relations' = freed[1]
      /\ heap' = freed[2]
      /\ double_free' = freed[3]
      /\ last_op' = IF relations = NoRelations THEN "free_noop" ELSE "free"
      /\ last_bf' = "free"
      /\ UNCHANGED <<listbases, id_pointers, session_uuids, nmut>>

MainIDRelationsEntryTags == {"MAINIDRELATIONS_ENTRY_TAGS_DOIT", "MAINIDRELATIONS_ENTRY_TAGS_PROCESSED"}

TagSetFirstOnly(rels, tag, value) ==
  IF rels = NoRelations THEN rels
  ELSE [rels EXCEPT ![1].relations_from_pointers =
          [i \in 1..Len(@) |->
             IF i = 1
               THEN [@[i] EXCEPT !.tags = IF value THEN @ \cup tag ELSE @ \ tag]
               ELSE @[i]]]

TagSetNoCheck(rels, tag, value) ==
  IF rels = NoRelations
    THEN << [relations_from_pointers |-> <<>>, entry_items_pool |-> <<>>,
             flag |-> {}, assert_failed |-> FALSE] >>
    ELSE [rels EXCEPT ![1].relations_from_pointers =
            [i \in 1..Len(@) |->
               [@[i] EXCEPT !.tags = IF value THEN @ \cup tag ELSE @ \ tag]]]

TagSetClearAll(rels, tag, value) ==
  IF rels = NoRelations THEN rels
  ELSE [rels EXCEPT ![1].relations_from_pointers =
          [i \in 1..Len(@) |->
             [@[i] EXCEPT !.tags = IF value THEN @ \cup tag ELSE {}]]]

TagSet(rels, tag, value) ==
  IF rels = NoRelations THEN rels
  ELSE [rels EXCEPT ![1].relations_from_pointers =
          [i \in 1..Len(@) |->
             [@[i] EXCEPT !.tags = IF value THEN @ \cup tag ELSE @ \ tag]]]

BKE_main_relations_tag_set(tag, value) ==
  /\ relations' = TagSet(relations, tag, value)
  /\ last_op' = "tag_set"
  /\ UNCHANGED <<listbases, id_pointers, session_uuids, heap, double_free, last_bf, nmut>>

(* The rest of the application changing the Main database. *)

AssignIDPointer(id, fld, ptr) ==
  /\ nmut < MaxMutations
  /\ fld \in 1..Len(id_pointers[id])
  /\ id_pointers[id][fld] # ptr
  /\ id_pointers' = [id_pointers EXCEPT ![id][fld] = ptr]
  /\ nmut' = nmut + 1
  /\ last_op' = "main_changed"
  /\ UNCHANGED <<listbases, session_uuids, relations, heap, double_free, last_bf>>

RemoveID(id) ==
  /\ nmut < MaxMutations
  /\ id \in MainIDs
  /\ listbases' = [listbases EXCEPT ![GS(id)] = SelectSeq(@, LAMBDA x : x # id)]
  /\ nmut' = nmut + 1
  /\ last_op' = "main_changed"
  /\ UNCHANGED <<id_pointers, session_uuids, relations, heap, double_free, last_bf>>

AddID(id) ==
  /\ nmut < MaxMutations
  /\ id \notin MainIDs
  /\ listbases' = [listbases EXCEPT ![GS(id)] = Append(@, id)]
  /\ nmut' = nmut + 1
  /\ last_op' = "main_changed"
  /\ UNCHANGED <<id_pointers, session_uuids, relations, heap, double_free, last_bf>>

\* The data-block at an address outside Main is freed and the address is
\* reused by a new data-block: a new session_uuid (the next of the session's
\* counter), all its ID pointers NULL.
ReallocID(id) ==
  /\ nmut < MaxMutations
  /\ id \notin MainIDs
  /\ session_uuids' =
       [session_uuids EXCEPT ![id] =
          1 + CHOOSE m \in Range([i \in 1..Cardinality(IDs) |-> session_uuids[i]]) :
                \A i \in IDs : session_uuids[i] <= m]
  /\ id_pointers' = [id_pointers EXCEPT ![id] = [f \in 1..Len(@) |-> NULL]]
  /\ nmut' = nmut + 1
  /\ last_op' = "main_changed"
  /\ UNCHANGED <<listbases, relations, heap, double_free, last_bf>>

BKE_main_free_keep_relations ==
  /\ listbases' = [t \in IDTypes |-> <<>>]
  /\ last_op' = IF relations # NoRelations THEN "main_free_relations" ELSE "main_free"
  /\ last_bf' = IF relations # NoRelations THEN "free" ELSE last_bf
  /\ UNCHANGED <<id_pointers, session_uuids, relations, heap, double_free, nmut>>

\* BKE_main_free: every ID of every ListBase is freed and the ListBases are
\* cleared, then the relations are freed if there are any; Main itself is
\* freed last, and nothing can be called on it any more.
BKE_main_free ==
  LET freed == IF relations # NoRelations
                 THEN RelationsFreed(relations, heap, double_free)
                 ELSE << relations, heap, double_free >>
  IN  /\ listbases' = [t \in IDTypes |-> <<>>]
      /\ relations' = freed[1]
      /\ heap' = freed[2]
      /\ double_free' = freed[3]
      /\ last_op' = IF relations # NoRelations THEN "main_free_relations" ELSE "main_free"
      /\ last_bf' = IF relations # NoRelations THEN "free" ELSE last_bf
      /\ UNCHANGED <<id_pointers, session_uuids, nmut>>

(* --------------------------- specification ------------------------------ *)

Built == relations # NoRelations

NoTagPair == [phase |-> 0, tag |-> {}, before |-> <<>>]

Threads == {"t1", "t2"}

NoThread == "none"

Idle == [op |-> "none", locking |-> FALSE, pc |-> "idle", pos |-> 0]

NoQuery == [source |-> "none"]

\* The empty std::unique_ptr<ColumnValues>, `return {}`.
NoColumn == <<>>

NoGSetCall == [arg |-> NULL, ret |-> NULL, before |-> <<>>]

Init ==
  /\ listbases \in {[ID_OB |-> <<1, 2>>, ID_SCR |-> <<3>>],
                     [ID_OB |-> <<2, 1>>, ID_SCR |-> <<3>>],
                     [ID_OB |-> <<1>>,    ID_SCR |-> <<3>>],
                     [ID_OB |-> <<1, 2>>, ID_SCR |-> <<>>]}
  /\ id_pointers \in {<< <<p1>>, <<p2>>, <<q1, q2, 1>> >> :
                        p1 \in PointerValues, p2 \in PointerValues,
                        q1 \in PointerValues, q2 \in {NULL, 2}}
  /\ session_uuids = [id \in IDs |-> 10 + id]
  /\ relations = NoRelations
  /\ heap = [b \in BlockKinds |-> 0]
  /\ double_free = FALSE
  /\ last_op = "main_new"
  /\ last_bf = "none"
  /\ nmut = 0
  /\ tag_pair = NoTagPair
  /\ gsets = <<>>
  /\ gset_call = NoGSetCall
  /\ lock = NoThread
  /\ thread = [t \in Threads |-> Idle]
  /\ crashed = FALSE
  /\ all_locked = TRUE
  /\ observations = {}
  /\ sheet_query = NoQuery
  /\ sheet_result = NoColumn

MainAlive == last_op \notin {"main_free", "main_free_relations"}

Next ==
  \/ MainAlive /\ UNCHANGED auxvars /\ \E id \in IDs : ReallocID(id)
  \/ MainAlive /\ UNCHANGED auxvars /\ BKE_main_free
  \/ MainAlive /\ UNCHANGED auxvars /\
       \E flag \in {{}, {"MAINIDRELATIONS_INCLUDE_UI"}} : BKE_main_relations_create(flag)
  \/ MainAlive /\ UNCHANGED auxvars /\ BKE_main_relations_free
  \/ MainAlive /\ UNCHANGED auxvars /\
       \E tag \in (SUBSET MainIDRelationsEntryTags) \ {{}}, value \in BOOLEAN :
         BKE_main_relations_tag_set(tag, value)
  \/ MainAlive /\ UNCHANGED auxvars /\
       \E id \in IDs, fld \in 1..3, ptr \in PointerValues : AssignIDPointer(id, fld, ptr)
  \/ MainAlive /\ UNCHANGED auxvars /\ \E id \in IDs : RemoveID(id)
  \/ MainAlive /\ UNCHANGED auxvars /\ \E id \in IDs : AddID(id)

Spec == Init /\ [][Next]_vars

(* ------------------------ BKE_main_gset_create -------------------------- *)

\* BLI_gset_add: the key joins the set.
BLI_gset_add(gs, key) ==
  IF key \in Range(gs) THEN gs ELSE Append(gs, key)

\* FOREACH_MAIN_ID_BEGIN (bmain, id) { BLI_gset_add(gset, id); }
RECURSIVE GSetAddIDs(_, _, _)
GSetAddIDs(gs, ids, n) ==
  IF n > Len(ids) THEN gs
  ELSE GSetAddIDs(BLI_gset_add(gs, ids[n]), ids, n + 1)

GSetCreatedAlwaysNew(sets, gset) ==
  << Append(sets, GSetAddIDs(<<>>, ForeachMainID(listbases), 1)), Len(sets) + 1 >>

\* The GSets after BKE_main_gset_create(bmain, gset) and the GSet it returns.
GSetCreated(sets, gset) ==
  LET ret == IF gset = NULL THEN Len(sets) + 1 ELSE gset
      new == IF gset = NULL THEN Append(sets, <<>>) ELSE sets
  IN  << [new EXCEPT ![ret] = GSetAddIDs(@, ForeachMainID(listbases), 1)], ret >>

BKE_main_gset_create(gset) ==
  /\ gset = NULL => Len(gsets) < MaxGSets
  /\ gsets' = GSetCreated(gsets, gset)[1]
  /\ gset_call' = [arg |-> gset, ret |-> GSetCreated(gsets, gset)[2], before |-> gsets]
  /\ last_op' = "gset_create"
  /\ UNCHANGED <<listbases, id_pointers, session_uuids, relations, heap, double_free,
                 last_bf, nmut, tagvars, threadvars, sheetvars>>

NextGSet ==
  \/ \E gset \in {NULL} \cup (1..Len(gsets)) : BKE_main_gset_create(gset)
  \/ UNCHANGED auxvars /\ \E id \in IDs : RemoveID(id)
  \/ UNCHANGED auxvars /\ \E id \in IDs : AddID(id)

SpecGSet == Init /\ [][NextGSet]_vars

(* ------------- threads calling in, with or without bmain->lock ---------- *)

\* The record of calls (last_op, last_bf) is that of a single caller; the
\* steps of the threads do not keep it.

ThreadOps == {"create", "free", "tag_set", "lookup"}

\* The storage of bmain->relations was released and the pointer not yet reset.
Released == relations # NoRelations /\ heap["MainIDRelations"] = 0

\* The index holds what a whole BKE_main_relations_create builds.
IndexComplete ==
  /\ relations # NoRelations
  /\ [relations[1] EXCEPT !.relations_from_pointers =
        [i \in 1..Len(@) |-> [@[i] EXCEPT !.tags = {}]]]
       = RelationsCreated(relations[1].flag)[1]

\* What a reader of bmain->relations finds.
Observed ==
  IF relations = NoRelations THEN "unbuilt"
  ELSE IF Released THEN "released"
  ELSE IF IndexComplete THEN "complete"
  ELSE "unpopulated"

\* Where a thread goes when its call returns.
Return(t) ==
  IF thread[t].locking THEN [thread[t] EXCEPT !.pc = "unlock"] ELSE Idle

\* A thread starts a call, taking the lock first or not.
Call(t, op, locking) ==
  /\ ~crashed
  /\ thread[t].pc = "idle"
  /\ thread' = [thread EXCEPT ![t] =
                  [op |-> op, locking |-> locking,
                   pc |-> IF locking THEN "lock" ELSE op, pos |-> 1]]
  /\ all_locked' = (all_locked /\ locking)
  /\ UNCHANGED <<mainvars, tagvars, gsetvars, sheetvars, lock, crashed, observations>>

BKE_main_lock_nowait(t) ==
  /\ ~crashed
  /\ thread[t].pc = "lock"
  /\ lock' = t
  /\ thread' = [thread EXCEPT ![t].pc = thread[t].op]
  /\ UNCHANGED <<mainvars, tagvars, gsetvars, sheetvars, crashed, all_locked, observations>>

\* BLI_spin_lock: spins until the lock is free, then holds it.
BKE_main_lock(t) ==
  /\ ~crashed
  /\ thread[t].pc = "lock"
  /\ lock = NoThread
  /\ lock' = t
  /\ thread' = [thread EXCEPT ![t].pc = thread[t].op]
  /\ UNCHANGED <<mainvars, tagvars, gsetvars, sheetvars, crashed, all_locked, observations>>

BKE_main_unlock(t) ==
  /\ ~crashed
  /\ thread[t].pc = "unlock"
  /\ lock' = NoThread
  /\ thread' = [thread EXCEPT ![t] = Idle]
  /\ UNCHANGED <<mainvars, tagvars, gsetvars, sheetvars, crashed, all_locked, observations>>

\* BKE_main_relations_create up to its loop: the old relations freed, the new
\* MainIDRelations, GHash and mempool allocated, the flag set.
CreateBegin(t, flag) ==
  LET freed == IF relations # NoRelations
                 THEN RelationsFreed(relations, heap, double_free)
                 ELSE << relations, heap, double_free >>
  IN  /\ ~crashed
      /\ thread[t].pc = "create"
      /\ relations' = << [relations_from_pointers |-> <<>>, entry_items_pool |-> <<>>,
                          flag |-> flag, assert_failed |-> FALSE] >>
      /\ heap' = MemAlloc(freed[2], BlockKinds)
      /\ double_free' = freed[3]
      /\ thread' = [thread EXCEPT ![t].pc = "create_loop"]
      /\ UNCHANGED <<listbases, id_pointers, session_uuids, last_op, last_bf, nmut,
                     tagvars, gsetvars, sheetvars, lock, crashed, all_locked, observations>>

CreateLoopWalksTwice(t) ==
  LET ids == ForeachMainID(listbases)
      pos == thread[t].pos
  IN  /\ ~crashed
      /\ thread[t].pc = "create_loop"
      /\ IF pos > Len(ids)
           THEN /\ thread' = [thread EXCEPT ![t] = Return(t)]
                /\ UNCHANGED <<relations, crashed>>
           ELSE IF relations = NoRelations \/ Released
                  THEN /\ crashed' = TRUE
                       /\ UNCHANGED <<relations, thread>>
                  ELSE /\ relations' = << RelationsCreateID(
                                            RelationsCreateID(relations[1], ids[pos]),
                                            ids[pos]) >>
                       /\ thread' = [thread EXCEPT ![t] =
                                       IF pos = Len(ids) THEN Return(t)
                                       ELSE [thread[t] EXCEPT !.pos = pos + 1]]
                       /\ UNCHANGED crashed
      /\ UNCHANGED <<listbases, id_pointers, session_uuids, heap, double_free, last_op,
                     last_bf, nmut, tagvars, gsetvars, sheetvars, lock, all_locked, observations>>

\* One turn of the FOREACH_MAIN_ID loop of BKE_main_relations_create, on
\* whatever bmain->relations points to by now.
CreateLoop(t) ==
  LET ids == ForeachMainID(listbases)
      pos == thread[t].pos
  IN  /\ ~crashed
      /\ thread[t].pc = "create_loop"
      /\ IF pos > Len(ids)
           THEN /\ thread' = [thread EXCEPT ![t] = Return(t)]
                /\ UNCHANGED <<relations, crashed>>
           ELSE IF relations = NoRelations \/ Released
                  THEN /\ crashed' = TRUE
                       /\ UNCHANGED <<relations, thread>>
                  ELSE /\ relations' = << RelationsCreateID(relations[1], ids[pos]) >>
                       /\ thread' = [thread EXCEPT ![t] =
                                       IF pos = Len(ids) THEN Return(t)
                                       ELSE [thread[t] EXCEPT !.pos = pos + 1]]
                       /\ UNCHANGED crashed
      /\ UNCHANGED <<listbases, id_pointers, session_uuids, heap, double_free, last_op,
                     last_bf, nmut, tagvars, gsetvars, sheetvars, lock, all_locked, observations>>

\* BKE_main_relations_free up to MEM_freeN(bmain->relations).
FreeRelease(t) ==
  /\ ~crashed
  /\ thread[t].pc = "free"
  /\ IF relations = NoRelations
       THEN /\ thread' = [thread EXCEPT ![t] = Return(t)]
            /\ UNCHANGED <<heap, double_free>>
       ELSE /\ heap' = MemFree(heap, BlockKinds)
            /\ double_free' = (double_free \/ MemFreeBad(heap, BlockKinds))
            /\ thread' = [thread EXCEPT ![t].pc = "free_reset"]
  /\ UNCHANGED <<listbases, id_pointers, session_uuids, relations, last_op, last_bf,
                 nmut, tagvars, gsetvars, sheetvars, lock, crashed, all_locked, observations>>

\* bmain->relations = NULL, the last statement of BKE_main_relations_free.
FreeReset(t) ==
  /\ ~crashed
  /\ thread[t].pc = "free_reset"
  /\ relations' = NoRelations
  /\ thread' = [thread EXCEPT ![t] = Return(t)]
  /\ UNCHANGED <<listbases, id_pointers, session_uuids, heap, double_free, last_op,
                 last_bf, nmut, tagvars, gsetvars, sheetvars, lock, crashed, all_locked, observations>>

TagSetCallTakesLock(t) ==
  /\ ~crashed
  /\ thread[t].pc = "tag_set"
  /\ lock = NoThread
  /\ relations' = TagSet(relations, {"MAINIDRELATIONS_ENTRY_TAGS_DOIT"}, TRUE)
  /\ thread' = [thread EXCEPT ![t] = Return(t)]
  /\ UNCHANGED <<listbases, id_pointers, session_uuids, heap, double_free, last_op,
                 last_bf, nmut, tagvars, gsetvars, sheetvars, lock, crashed, all_locked,
                 observations>>

\* BKE_main_relations_tag_set(bmain, MAINIDRELATIONS_ENTRY_TAGS_DOIT, true)
\* by a thread.
TagSetCall(t) ==
  /\ ~crashed
  /\ thread[t].pc = "tag_set"
  /\ IF Released
       THEN crashed' = TRUE /\ UNCHANGED <<relations, thread>>
       ELSE /\ relations' = TagSet(relations, {"MAINIDRELATIONS_ENTRY_TAGS_DOIT"},
                                   TRUE)
            /\ thread' = [thread EXCEPT ![t] = Return(t)]
            /\ UNCHANGED crashed
  /\ UNCHANGED <<listbases, id_pointers, session_uuids, heap, double_free, last_op,
                 last_bf, nmut, tagvars, gsetvars, sheetvars, lock, all_locked, observations>>

\* A thread reads bmain->relations and looks an ID up in it.
LookupCall(t) ==
  /\ ~crashed
  /\ thread[t].pc = "lookup"
  /\ observations' = observations \cup {<<Observed, all_locked>>}
  /\ thread' = [thread EXCEPT ![t] = Return(t)]
  /\ UNCHANGED <<mainvars, tagvars, gsetvars, sheetvars, lock, crashed, all_locked>>

InitThreads ==
  /\ Init
  /\ listbases = [ID_OB |-> <<1>>, ID_SCR |-> <<3>>]
  /\ id_pointers = << <<2>>, <<NULL>>, <<1, 2, 1>> >>

NextThreads ==
  \/ \E t \in Threads, op \in ThreadOps, locking \in BOOLEAN : Call(t, op, locking)
  \/ \E t \in Threads : BKE_main_lock(t)
  \/ \E t \in Threads : BKE_main_unlock(t)
  \/ \E t \in Threads : CreateBegin(t, {})
  \/ \E t \in Threads : CreateLoop(t)
  \/ \E t \in Threads : FreeRelease(t)
  \/ \E t \in Threads : FreeReset(t)
  \/ \E t \in Threads : TagSetCall(t)
  \/ \E t \in Threads : LookupCall(t)

SpecThreads == InitThreads /\ [][NextThreads]_vars

\* A step of thread t inside relations_create, relations_free or tag_set.
OpStep(t) ==
  \/ CreateBegin(t, {})
  \/ CreateLoop(t)
  \/ FreeRelease(t)
  \/ FreeReset(t)
  \/ TagSetCall(t)

\* A Main of one object that points to an ID outside Main, and one screen
\* whose only pointer is a user-interface one.
InitLocked ==
  /\ Init
  /\ listbases = [ID_OB |-> <<1>>, ID_SCR |-> <<3>>]
  /\ id_pointers = << <<2>>, <<NULL>>, <<NULL, NULL, 1>> >>

\* The threads when every call is made between BKE_main_lock and
\* BKE_main_unlock.  A thread that is not waiting for the lock keeps running.
NextLocked ==
  \/ \E t \in Threads, op \in ThreadOps : Call(t, op, TRUE)
  \/ \E t \in Threads : BKE_main_lock(t)
  \/ \E t \in Threads : BKE_main_unlock(t)
  \/ \E t \in Threads : OpStep(t)
  \/ \E t \in Threads : LookupCall(t)

SpecLocked ==
  /\ InitLocked
  /\ [][NextLocked]_vars
  /\ \A t \in Threads : WF_vars(OpStep(t) \/ LookupCall(t) \/ BKE_main_unlock(t))

(* ------------------ one caller building the relations ------------------ *)

\* The thread that builds.
Builder == "t1"

\* Mains whose objects point to themselves, to each other or to nothing.
InitBuild ==
  /\ Init
  /\ id_pointers[3] = <<NULL, NULL, 1>>

\* BKE_main_relations_create called again and again by one thread, one turn
\* of its loop at a time.
NextBuild ==
  \/ Call(Builder, "create", FALSE)
  \/ CreateBegin(Builder, {})
  \/ CreateLoop(Builder)

\* A call that has started keeps running.
SpecBuild ==
  /\ InitBuild
  /\ [][NextBuild]_vars
  /\ WF_vars(CreateBegin(Builder, {}) \/ CreateLoop(Builder))

(* ------------- the calls that only read the Main database --------------- *)

NextFrame ==
  \/ UNCHANGED auxvars /\
       \E flag \in {{}, {"MAINIDRELATIONS_INCLUDE_UI"}} : BKE_main_relations_create(flag)
  \/ UNCHANGED auxvars /\ BKE_main_relations_free
  \/ UNCHANGED auxvars /\
       \E tag \in (SUBSET MainIDRelationsEntryTags) \ {{}}, value \in BOOLEAN :
         BKE_main_relations_tag_set(tag, value)
  \/ \E gset \in {NULL} \cup (1..Len(gsets)) : BKE_main_gset_create(gset)

SpecFrame == Init /\ [][NextFrame]_vars

(* ---------------- a caller setting and clearing tags -------------------- *)

EntryTags(rels) ==
  IF rels = NoRelations THEN <<>>
  ELSE [i \in 1..Len(rels[1].relations_from_pointers) |->
          rels[1].relations_from_pointers[i].tags]

\* What the caller remembers over a call of tag_set: a tag_set(tag, true)
\* starts a pair, the tag_set(tag, false) right after it ends the pair.
TagPairAfter(tag, value) ==
  IF value
    THEN [phase |-> 1, tag |-> tag, before |-> EntryTags(relations)]
    ELSE IF tag_pair.phase = 1 /\ tag_pair.tag = tag
           THEN [tag_pair EXCEPT !.phase = 2]
           ELSE NoTagPair

NextTags ==
  \/ /\ ~Built
     /\ \E flag \in {{}, {"MAINIDRELATIONS_INCLUDE_UI"}} : BKE_main_relations_create(flag)
     /\ tag_pair' = NoTagPair
     /\ UNCHANGED <<gsetvars, threadvars, sheetvars>>
  \/ \E tag \in (SUBSET MainIDRelationsEntryTags) \ {{}}, value \in BOOLEAN :
       /\ Built
       /\ BKE_main_relations_tag_set(tag, value)
       /\ tag_pair' = TagPairAfter(tag, value)
       /\ UNCHANGED <<gsetvars, threadvars, sheetvars>>

SpecTags == Init /\ [][NextTags]_vars

(* --------------------- reading the relation index ----------------------- *)


AfterCreate == last_op \in CreateOps

\* The entries stored for an ID, and the items of their two lists.
EntriesOf(id) ==
  {relations[1].relations_from_pointers[i] :
     i \in GHashSlots(relations[1].relations_from_pointers, id)}

ToItems(entry) == ListItems(relations[1].entry_items_pool, entry.to_ids)

FromItems(entry) == ListItems(relations[1].entry_items_pool, entry.from_ids)

CountIn(items, P(_)) == Cardinality({i \in 1..Len(items) : P(items[i])})

\* The ID pointer fields of an ID that a walk with the relations' flag visits.
WalkedFields(id) ==
  {fld \in 1..Len(IDPointerFields(GS(id))) :
     IDPointerFields(GS(id))[fld].ui => "MAINIDRELATIONS_INCLUDE_UI" \in relations[1].flag}

\* The reference-field occurrences discovered by the last build.
Occurrences == UNION {{<<id, fld>> : fld \in WalkedFields(id)} : id \in MainIDs}

OccValue(o) == id_pointers[o[1]][o[2]]

OccFlag(o) == IDPointerFields(GS(o[1]))[o[2]].cb_flag

NonNullOccurrences == {o \in Occurrences : OccValue(o) # NULL}

NullOccurrences == {o \in Occurrences : OccValue(o) = NULL}

\* Occurrences in `source` that point to `target` and are reported with `flag`.
OccurrencesFromTo(source, target, flag) ==
  {o \in Occurrences : o[1] = source /\ OccValue(o) = target /\ OccFlag(o) = flag}

\* The edges of an entry as (direction, source, target, usage flag): the
\* source of an outgoing edge is the owner of the entry and its target is the
\* stamp of the item; an incoming edge has the stamp of its source.
EdgesOfEntry(rel, e) ==
  LET to   == ListItems(rel.entry_items_pool, e.to_ids)
      from == ListItems(rel.entry_items_pool, e.from_ids)
  IN  [k \in 1..Len(to) |->
         <<"to", session_uuid(e.key), to[k].session_uuid, to[k].usage_flag>>]
      \o
      [k \in 1..Len(from) |->
         <<"from", from[k].session_uuid, session_uuid(e.key), from[k].usage_flag>>]

RECURSIVE EdgeSeq(_, _)
EdgeSeq(rel, i) ==
  IF i > Len(rel.relations_from_pointers) THEN <<>>
  ELSE EdgesOfEntry(rel, rel.relations_from_pointers[i]) \o EdgeSeq(rel, i + 1)

EntryKeys(rel) ==
  [i \in 1..Len(rel.relations_from_pointers) |-> rel.relations_from_pointers[i].key]

CountOf(s, x) == Cardinality({i \in 1..Len(s) : s[i] = x})

SameBag(s, t) ==
  /\ Len(s) = Len(t)
  /\ \A i \in 1..Len(s) : CountOf(s, s[i]) = CountOf(t, s[i])

\* lookup: the entry of an ID in relations_from_pointers, {} when absent.
BKE_main_relations_lookup(id) ==
  IF relations = NoRelations THEN {} ELSE EntriesOf(id)

(* ------------- queries: lookup and the spreadsheet columns -------------- *)

AttributeDomains == {"ATTR_DOMAIN_POINT", "ATTR_DOMAIN_EDGE"}

CPPTypes == {"float", "int", "bool", "float2", "float3", "ColorGeometry4f",
             "std::string", "double"}

AttributeNames == {"position", "radius"}

ColumnSizes == {0, 2}

\* bke::cpp_type_to_custom_data_type
cpp_type_to_custom_data_type(type) ==
  CASE type = "float"           -> "CD_PROP_FLOAT"
    [] type = "int"             -> "CD_PROP_INT32"
    [] type = "bool"            -> "CD_PROP_BOOL"
    [] type = "float2"          -> "CD_PROP_FLOAT2"
    [] type = "float3"          -> "CD_PROP_FLOAT3"
    [] type = "ColorGeometry4f" -> "CD_PROP_COLOR"
    [] type = "std::string"     -> "CD_PROP_STRING"
    [] OTHER                    -> "-1"

\* The geometry components: every attribute they hold, with its domain, the
\* type of its values and their number.
GeometryComponents ==
  {<<>>} \cup
  {[name \in {"position"} |-> [domain |-> d, type |-> ty, size |-> n]] :
     d \in AttributeDomains, ty \in CPPTypes, n \in ColumnSizes}

\* component_->attribute_try_get_for_read(name): << >> when there is none.
attribute_try_get_for_read(component, name) ==
  IF name \in DOMAIN component THEN << component[name] >> ELSE << >>

column_values_from_function(type, name, size) ==
  << [type |-> type, name |-> name, size |-> size] >>

GeometryColumnNoDomainCheck(component, domain_, name) ==
  LET attribute == attribute_try_get_for_read(component, name)
  IN  IF attribute = << >> THEN NoColumn
      ELSE column_values_from_function("SPREADSHEET_VALUE_TYPE_FLOAT", name,
                                       attribute[1].size)

\* GeometryDataSource::get_column_values
GeometryDataSource_get_column_values(component, domain_, name) ==
  LET attribute == attribute_try_get_for_read(component, name)
  IN  IF attribute = << >> THEN NoColumn
      ELSE IF attribute[1].domain # domain_ THEN NoColumn
      ELSE LET domain_size == attribute[1].size
               type == cpp_type_to_custom_data_type(attribute[1].type)
           IN  CASE type = "CD_PROP_FLOAT" ->
                      column_values_from_function("SPREADSHEET_VALUE_TYPE_FLOAT", name, domain_size)
                 [] type = "CD_PROP_INT32" ->
                      column_values_from_function("SPREADSHEET_VALUE_TYPE_INT32", name, domain_size)
                 [] type = "CD_PROP_BOOL" ->
                      column_values_from_function("SPREADSHEET_VALUE_TYPE_BOOL", name, domain_size)
                 [] type = "CD_PROP_FLOAT2" ->
                      column_values_from_function("SPREADSHEET_VALUE_TYPE_FLOAT2", name, domain_size)
                 [] type = "CD_PROP_FLOAT3" ->
                      column_values_from_function("SPREADSHEET_VALUE_TYPE_FLOAT3", name, domain_size)
                 [] type = "CD_PROP_COLOR" ->
                      column_values_from_function("SPREADSHEET_VALUE_TYPE_COLOR", name, domain_size)
                 [] OTHER -> NoColumn

InstancesColumnNames == {"Name", "Position", "Rotation", "Scale", "ID", "Color"}

\* InstancesDataSource::get_column_values
InstancesDataSource_get_column_values(instances_amount, name) ==
  IF instances_amount = 0 THEN NoColumn
  ELSE LET size == instances_amount
       IN  CASE name = "Name" ->
                  column_values_from_function("SPREADSHEET_VALUE_TYPE_INSTANCES", "Name", size)
             [] name \in {"Position", "Rotation", "Scale"} ->
                  column_values_from_function("SPREADSHEET_VALUE_TYPE_FLOAT3", name, size)
             [] name = "ID" ->
                  column_values_from_function("SPREADSHEET_VALUE_TYPE_INT32", name, size)
             [] OTHER -> NoColumn

GeometryQuery(component, domain_, name) ==
  /\ sheet_query' = [source |-> "geometry", component |-> component,
                     domain_ |-> domain_, name |-> name]
  /\ sheet_result' = GeometryDataSource_get_column_values(component, domain_, name)
  /\ UNCHANGED <<mainvars, tagvars, gsetvars, threadvars>>

InstancesQuery(instances_amount, name) ==
  /\ sheet_query' = [source |-> "instances", instances_amount |-> instances_amount,
                     name |-> name]
  /\ sheet_result' = InstancesDataSource_get_column_values(instances_amount, name)
  /\ UNCHANGED <<mainvars, tagvars, gsetvars, threadvars>>

LookupQuery(id) ==
  /\ sheet_query' = [source |-> "lookup", id |-> id]
  /\ sheet_result' = BKE_main_relations_lookup(id)
  /\ UNCHANGED <<mainvars, tagvars, gsetvars, threadvars>>

InitSheet ==
  /\ Init
  /\ listbases = [ID_OB |-> <<1>>, ID_SCR |-> <<3>>]
  /\ id_pointers = << <<NULL>>, <<NULL>>, <<1, NULL, 1>> >>

NextSheet ==
  \/ \E component \in GeometryComponents, domain_ \in AttributeDomains,
        name \in AttributeNames : GeometryQuery(component, domain_, name)
  \/ \E instances_amount \in ColumnSizes, name \in InstancesColumnNames :
       InstancesQuery(instances_amount, name)
  \/ \E id \in IDs : LookupQuery(id)
  \/ UNCHANGED auxvars /\ ~Built /\ BKE_main_relations_create({})

SpecSheet == InitSheet /\ [][NextSheet]_vars

(* ------------------------------ C1 -------------------------------------- *)

\* C1: after BKE_main_relations_create, every ID in Main has exactly one
\* entry in relations_from_pointers, IDs without any relation included.
C1_EveryMainIDHasOneEntry ==
  AfterCreate =>
    \A id \in MainIDs :
      Cardinality(GHashSlots(relations[1].relations_from_pointers, id)) = 1

\* An ID of Main that is already target of an earlier ID when the loop reaches
\* it, and an ID of Main with no relation at all, after a build.
C1_Witness ==
  /\ AfterCreate
  /\ \E id \in MainIDs : \A e \in EntriesOf(id) : e.to_ids = NULL /\ e.from_ids = NULL
  /\ listbases["ID_OB"] = <<1, 2>> /\ id_pointers[1][1] = 2

(* ------------------------------ C2 -------------------------------------- *)

\* C2: after a build, every discovered non-NULL ID pointer (in S, to T, with
\* flags F; S may be T) has exactly one item in the to_ids of S's entry, stamped
\* with T's session_uuid and carrying F, and the from_ids of T's entry hold one
\* item per such pointer, referring to S, stamped with S's session_uuid and
\* carrying F.
C2_NonNullPointerHasBothItems ==
  AfterCreate =>
    \A o \in NonNullOccurrences :
      LET S == o[1]
          T == OccValue(o)
          F == OccFlag(o)
      IN  /\ Cardinality(EntriesOf(S)) = 1
          /\ Cardinality(EntriesOf(T)) = 1
          /\ \A e \in EntriesOf(S) :
               /\ CountIn(ToItems(e), LAMBDA it : it.id_pointer = <<"to", S, o[2]>>) = 1
               /\ \A k \in 1..Len(ToItems(e)) :
                    ToItems(e)[k].id_pointer = <<"to", S, o[2]>> =>
                      /\ ToItems(e)[k].session_uuid = session_uuid(T)
                      /\ ToItems(e)[k].usage_flag = F
          /\ \A e \in EntriesOf(T) :
               /\ CountIn(FromItems(e),
                          LAMBDA it : it.id_pointer = <<"from", S>> /\ it.usage_flag = F)
                    = Cardinality(OccurrencesFromTo(S, T, F))
               /\ \A k \in 1..Len(FromItems(e)) :
                    FromItems(e)[k].id_pointer = <<"from", S>> =>
                      FromItems(e)[k].session_uuid = session_uuid(S)

\* A build of a Main with an ID that points to itself, and an ID that points
\* to another one.
C2_Witness ==
  /\ AfterCreate
  /\ \E o \in NonNullOccurrences : OccValue(o) = o[1]
  /\ \E o \in NonNullOccurrences : OccValue(o) # o[1]

(* ------------------------------ C3 -------------------------------------- *)

\* C3: after a build, every discovered NULL ID pointer has exactly one item in
\* the to_ids of its owner's entry, stamped MAIN_ID_SESSION_UUID_UNSET, and no
\* item in any from_ids.
C3_NullPointerHasUnsetItem ==
  AfterCreate =>
    \A o \in NullOccurrences :
      /\ \A e \in EntriesOf(o[1]) :
           /\ CountIn(ToItems(e), LAMBDA it : it.id_pointer = <<"to", o[1], o[2]>>) = 1
           /\ \A k \in 1..Len(ToItems(e)) :
                ToItems(e)[k].id_pointer = <<"to", o[1], o[2]>> =>
                  ToItems(e)[k].session_uuid = MAIN_ID_SESSION_UUID_UNSET
      /\ \A id \in IDs : \A e \in EntriesOf(id) :
           CountIn(FromItems(e), LAMBDA it : it.id_pointer = <<"from", o[1]>>)
             = Cardinality({n \in NonNullOccurrences : n[1] = o[1] /\ OccValue(n) = id})

(* ------------------------------ C4 -------------------------------------- *)

\* The Main {A, B}: A (ID 1) with its one pointer NULL, B (ID 2) pointing to A.
ScenarioAB ==
  /\ MainIDs = {1, 2}
  /\ id_pointers[1] = <<NULL>>
  /\ id_pointers[2] = <<1>>

\* C4: after a build of {A: next = NULL, B: next = A}, A's from_ids hold one
\* item, from B; A's to_ids hold one item, with the unset stamp; B's to_ids
\* hold one item, stamped with A; B's from_ids are empty.
C4_ScenarioAB ==
  (AfterCreate /\ ScenarioAB) =>
    /\ \A a \in EntriesOf(1) :
         /\ Len(FromItems(a)) = 1
         /\ FromItems(a)[1].id_pointer = <<"from", 2>>
         /\ Len(ToItems(a)) = 1
         /\ ToItems(a)[1].session_uuid = MAIN_ID_SESSION_UUID_UNSET
    /\ \A b \in EntriesOf(2) :
         /\ Len(ToItems(b)) = 1
         /\ ToItems(b)[1].session_uuid = session_uuid(1)
         /\ Len(FromItems(b)) = 0
    /\ EntriesOf(1) # {} /\ EntriesOf(2) # {}

(* ------------------------------ C5 -------------------------------------- *)

\* C5: after a build, the number of items taken from entry_items_pool is
\* twice the number of discovered non-NULL ID pointers plus the number of
\* discovered NULL ID pointers.
C5_PoolItemCount ==
  AfterCreate =>
    Len(relations[1].entry_items_pool)
      = 2 * Cardinality(NonNullOccurrences) + Cardinality(NullOccurrences)

(* ------------------------------ C6 -------------------------------------- *)

\* C6: bmain->relations is non-NULL exactly when the most recent call among
\* relations_create and relations_free was relations_create; tag_set and
\* changes to Main leave it as it is.
C6_BuiltIffLastWasCreate ==
  Built <=> last_bf = "create"

\* A tag_set on a built index.
C6_Witness ==
  /\ last_op = "tag_set"
  /\ last_bf = "create"
  /\ Built

(* ------------------------------ C7 -------------------------------------- *)

\* C7: a relations_create called right after a relations_create with the same
\* flag, Main unchanged in between, leaves the same entries and the same
\* multiset of edges (direction, source, target, usage flag) as the first.
C7_CreateTwiceSameIndex ==
  [][ (last_op' = "create_twice" /\ relations'[1].flag = relations[1].flag) =>
        /\ SameBag(EntryKeys(relations[1]), EntryKeys(relations'[1]))
        /\ SameBag(EdgeSeq(relations[1], 1), EdgeSeq(relations'[1], 1)) ]_vars

\* The second of two builds in a row, of a Main with NULL and non-NULL
\* pointers, a self reference included.
C7_Witness ==
  /\ last_op = "create_twice"
  /\ NullOccurrences # {}
  /\ \E o \in NonNullOccurrences : OccValue(o) = o[1]
  /\ \E o \in NonNullOccurrences : OccValue(o) # o[1]

(* ------------------------------ C8 -------------------------------------- *)

\* C8: a relations_create on a built index leaves only what the Main holds at
\* that time: every entry is of an ID of Main or of the target of a discovered
\* pointer, every item is of a discovered non-NULL pointer (none twice, none
\* left over in the pool), and every entry's tags are empty.
C8_RebuildIsFresh ==
  (AfterCreate /\ last_op # "create") =>
    /\ \A i \in 1..Len(relations[1].relations_from_pointers) :
         LET e == relations[1].relations_from_pointers[i] IN
         /\ e.tags = {}
         /\ e.key \in MainIDs \cup {OccValue(o) : o \in NonNullOccurrences}
         /\ \A k \in 1..Len(ToItems(e)) :
              /\ \E o \in NonNullOccurrences :
                   /\ ToItems(e)[k].id_pointer = <<"to", o[1], o[2]>>
                   /\ o[1] = e.key
                   /\ ToItems(e)[k].session_uuid = session_uuid(OccValue(o))
                   /\ ToItems(e)[k].usage_flag = OccFlag(o)
              /\ CountIn(ToItems(e),
                         LAMBDA it : it.id_pointer = ToItems(e)[k].id_pointer) = 1
         /\ \A k \in 1..Len(FromItems(e)) :
              \E o \in NonNullOccurrences :
                /\ FromItems(e)[k].id_pointer = <<"from", o[1]>>
                /\ OccValue(o) = e.key
                /\ FromItems(e)[k].usage_flag = OccFlag(o)
                /\ CountIn(FromItems(e),
                           LAMBDA it : /\ it.id_pointer = <<"from", o[1]>>
                                       /\ it.usage_flag = OccFlag(o))
                     = Cardinality(OccurrencesFromTo(o[1], e.key, OccFlag(o)))
    /\ Len(relations[1].entry_items_pool) = 2 * Cardinality(NonNullOccurrences)

\* A build of an index that was built before Main was last changed.
C8_Witness ==
  /\ last_op = "create_stale"
  /\ nmut > 0

(* ------------------------------ C9 -------------------------------------- *)

\* C9: after relations_free on a built index, bmain->relations is NULL and the
\* lookup of any ID finds no entry.
C9_LookupAbsentAfterFree ==
  last_op = "free" =>
    /\ relations = NoRelations
    /\ \A id \in IDs : BKE_main_relations_lookup(id) = {}

\* The state right after a built index with entries was freed.
C9_Witness ==
  /\ last_op = "free"
  /\ MainIDs # {}
  /\ heap = [b \in BlockKinds |-> 0]

(* ------------------------------ C10 ------------------------------------- *)

\* C10: relations_free with bmain->relations NULL changes nothing and
\* releases nothing, and no block is ever released twice.
C10_FreeIsIdempotent ==
  /\ [](~double_free)
  /\ [][ last_op' = "free_noop" =>
           UNCHANGED <<relations, heap, double_free, listbases, id_pointers, nmut>> ]_vars

\* A relations_free right after a relations_free.
C10_Witness ==
  /\ last_op = "free_noop"
  /\ last_bf = "free"
  /\ relations = NoRelations

(* ------------------------------ C11 ------------------------------------- *)

\* C11: through any calls of relations_create and relations_free up to
\* BKE_main_free, at most one MainIDRelations, one GHash and one mempool are
\* live, they are live exactly while bmain->relations is not NULL, no block is
\* released while not live, and none is live after BKE_main_free.
C11_NoLeakNoDoubleFree ==
  /\ ~double_free
  /\ \A b \in BlockKinds : heap[b] = (IF Built THEN 1 ELSE 0)
  /\ ~MainAlive => (~Built /\ \A b \in BlockKinds : heap[b] = 0)

\* Main freed while its relations were built.
C11_Witness ==
  /\ last_op = "main_free_relations"
  /\ \A b \in BlockKinds : heap[b] = 0

(* ------------------------------ C12 ------------------------------------- *)

\* C12 (as claimed): after tag_set(tag, true) then tag_set(tag, false) on a
\* built index, every entry has the tags it had before the first call.
C12_SetThenClearRestores ==
  tag_pair.phase = 2 => EntryTags(relations) = tag_pair.before

\* C12 (amended): after tag_set(tag, true) then tag_set(tag, false) on a built
\* index, every entry has the tags it had before the first call without the
\* bits of tag; they are the tags it had before when none of these bits was
\* set before.
C12_SetThenClearClears ==
  tag_pair.phase = 2 =>
    /\ Len(EntryTags(relations)) = Len(tag_pair.before)
    /\ \A i \in 1..Len(tag_pair.before) :
         /\ EntryTags(relations)[i] = tag_pair.before[i] \ tag_pair.tag
         /\ tag_pair.before[i] \cap tag_pair.tag = {} =>
              EntryTags(relations)[i] = tag_pair.before[i]

\* A pair was done on entries that had one bit of the tag set before and a
\* bit outside the tag as well.
C12_Witness ==
  /\ tag_pair.phase = 2
  /\ \E i \in 1..Len(tag_pair.before) :
       /\ tag_pair.before[i] \cap tag_pair.tag # {}
       /\ tag_pair.before[i] \ tag_pair.tag # {}

(* ------------------------------ C13 ------------------------------------- *)

\* C13: a tag_set(tag, value) on a built index leaves every entry of
\* relations_from_pointers, of an ID of Main or not, with every bit of tag set
\* when value is true and cleared when value is false.
C13_TagSetReachesEveryEntry ==
  [][ (Built /\ last_op' = "tag_set") =>
        \A tag \in (SUBSET MainIDRelationsEntryTags) \ {{}}, value \in BOOLEAN :
          BKE_main_relations_tag_set(tag, value) =>
            \A i \in 1..Len(relations'[1].relations_from_pointers) :
              IF value
                THEN tag \subseteq relations'[1].relations_from_pointers[i].tags
                ELSE tag \cap relations'[1].relations_from_pointers[i].tags = {} ]_vars

\* After a tag_set that set a bit, on an index with several entries, one of
\* them of an ID that is only a target.
C13_Witness ==
  /\ Built
  /\ last_op = "tag_set"
  /\ Len(relations[1].relations_from_pointers) > 1
  /\ \E i \in 1..Len(relations[1].relations_from_pointers) :
       /\ relations[1].relations_from_pointers[i].key \notin MainIDs
       /\ relations[1].relations_from_pointers[i].tags # {}

(* ------------------------------ C14 ------------------------------------- *)

\* C14: a tag_set with bmain->relations NULL returns at once: the relations
\* stay NULL and nothing else changes.
C14_TagSetOnUnbuiltIsNoop ==
  [][ (~Built /\ last_op' = "tag_set") =>
        /\ relations' = NoRelations
        /\ UNCHANGED <<listbases, id_pointers, session_uuids, heap, double_free,
                       last_bf, nmut>> ]_vars

\* After a tag_set on relations that were freed.
C14_Witness ==
  /\ last_op = "tag_set"
  /\ ~Built
  /\ last_bf = "free"

(* ------------------------------ C15 ------------------------------------- *)

EntryStamps(rel) ==
  [i \in 1..Len(rel.relations_from_pointers) |->
     <<rel.relations_from_pointers[i].key, rel.relations_from_pointers[i].session_uuid>>]

\* C15 (as claimed): in every state of a built index, the session_uuid stamp
\* of each entry is the session_uuid of the ID it is keyed by, and no
\* BLI_assert on the stamp has failed.
C15_StampAlwaysMatches ==
  Built =>
    /\ ~relations[1].assert_failed
    /\ \A i \in 1..Len(relations[1].relations_from_pointers) :
         relations[1].relations_from_pointers[i].session_uuid
           = session_uuid(relations[1].relations_from_pointers[i].key)

\* C15 (amended): right after a relations_create the stamp of each entry is
\* the session_uuid of the ID it is keyed by; no call other than a
\* relations_create changes a stamp; no BLI_assert on the stamp ever fails.
C15_StampWrittenOnce ==
  /\ [](Built => ~relations[1].assert_failed)
  /\ [](AfterCreate =>
          \A i \in 1..Len(relations[1].relations_from_pointers) :
            relations[1].relations_from_pointers[i].session_uuid
              = session_uuid(relations[1].relations_from_pointers[i].key))
  /\ [][ (Built /\ Built' /\ last_op' \notin CreateOps) =>
           EntryStamps(relations'[1]) = EntryStamps(relations[1]) ]_vars

\* A build in which existing entries were found again (ID 1 points to ID 2,
\* both in Main), after an address was reused by a new data-block.
C15_Witness ==
  /\ AfterCreate
  /\ session_uuids # [id \in IDs |-> 10 + id]
  /\ \E o \in NonNullOccurrences : OccValue(o) # o[1]

(* ------------------------------ C16 ------------------------------------- *)

InCall == {t \in Threads : thread[t].pc \notin {"idle", "lock"}}

\* C16: while every call of relations_create, relations_free, tag_set and
\* lookup has been made between BKE_main_lock and BKE_main_unlock, at most one
\* thread is inside a call, no thread dereferences NULL or released storage,
\* nothing is released twice, and every lookup finds bmain->relations NULL or
\* the whole index.
C16_LockedCallsExclude ==
  /\ all_locked =>
       /\ Cardinality(InCall) <= 1
       /\ ~crashed
       /\ ~double_free
  /\ \A o \in observations : o[2] => o[1] \in {"unbuilt", "complete"}

\* Lookups under the lock found the whole index; later lookups made without
\* the lock found an index not yet filled, and one already released.
C16_Witness ==
  /\ <<"complete", TRUE>> \in observations
  /\ <<"unpopulated", FALSE>> \in observations
  /\ <<"released", FALSE>> \in observations

(* ------------------------------ C17 ------------------------------------- *)

\* C17: the GSet that BKE_main_gset_create returns holds every ID of Main.
\* Called with NULL it returns a new GSet whose keys are exactly the IDs of
\* Main; called with a GSet it returns that GSet, whose keys are the keys it
\* had and the IDs of Main; no key is held twice and no other GSet changes.
C17_GSetHoldsMainIDs ==
  last_op = "gset_create" =>
    LET arg == gset_call.arg
        ret == gset_call.ret
        before == gset_call.before
    IN  /\ ret \in 1..Len(gsets)
        /\ MainIDs \subseteq Range(gsets[ret])
        /\ Len(gsets[ret]) = Cardinality(Range(gsets[ret]))
        /\ arg = NULL =>
             /\ ret = Len(before) + 1
             /\ Range(gsets[ret]) = MainIDs
        /\ arg # NULL =>
             /\ ret = arg
             /\ Len(gsets) = Len(before)
             /\ Range(gsets[ret]) = Range(before[arg]) \cup MainIDs
        /\ \A g \in 1..Len(before) : g # ret => gsets[g] = before[g]

\* A call with a GSet that held an ID no longer in Main and IDs still in Main.
C17_Witness ==
  /\ last_op = "gset_create"
  /\ gset_call.arg # NULL
  /\ ~(Range(gset_call.before[gset_call.arg]) \subseteq MainIDs)
  /\ Range(gset_call.before[gset_call.arg]) \cap MainIDs # {}

(* ------------------------------ C18 ------------------------------------- *)

SupportedTypes == {"CD_PROP_FLOAT", "CD_PROP_INT32", "CD_PROP_BOOL", "CD_PROP_FLOAT2",
                   "CD_PROP_FLOAT3", "CD_PROP_COLOR"}

\* C18: a lookup of an ID without entry returns no entry; get_column_values
\* of a geometry source returns no column when the component has no attribute
\* of that name, when the attribute is on another domain, or when its type is
\* not one of the six supported; get_column_values of an instances source
\* returns no column when there are no instances or the name is none of Name,
\* Position, Rotation, Scale, ID; otherwise the result is one column.
C18_AbsentQueriesReturnEmpty ==
  /\ sheet_query.source = "lookup" =>
       /\ (Built /\ sheet_query.id \in Range(EntryKeys(relations[1]))) \/ sheet_result = {}
       /\ Cardinality(sheet_result) <= 1
  /\ sheet_query.source = "geometry" =>
       LET c == sheet_query.component
           n == sheet_query.name
       IN  /\ (\/ n \notin DOMAIN c
               \/ c[n].domain # sheet_query.domain_
               \/ cpp_type_to_custom_data_type(c[n].type) \notin SupportedTypes)
                => sheet_result = NoColumn
           /\ Len(sheet_result) <= 1
  /\ sheet_query.source = "instances" =>
       /\ (\/ sheet_query.instances_amount = 0
           \/ sheet_query.name \notin {"Name", "Position", "Rotation", "Scale", "ID"})
            => sheet_result = NoColumn
       /\ Len(sheet_result) <= 1

\* A geometry source was asked for an attribute that the component holds on
\* another domain, and returned no column.
C18_Witness ==
  /\ sheet_query.source = "geometry"
  /\ sheet_query.name \in DOMAIN sheet_query.component
  /\ sheet_query.component[sheet_query.name].domain # sheet_query.domain_
  /\ cpp_type_to_custom_data_type(sheet_query.component[sheet_query.name].type)
       \in SupportedTypes
  /\ sheet_result = NoColumn

(* ------------------------------ C19 ------------------------------------- *)

\* C19: after a build, the IDs with an entry are the IDs of Main together
\* with the targets of the discovered non-NULL pointers; when every target is
\* in Main there are as many entries as IDs in Main.
C19_EntriesAreMainAndTargets ==
  AfterCreate =>
    /\ Range(EntryKeys(relations[1]))
         = MainIDs \cup {OccValue(o) : o \in NonNullOccurrences}
    /\ {OccValue(o) : o \in NonNullOccurrences} \subseteq MainIDs =>
         Len(relations[1].relations_from_pointers) = Cardinality(MainIDs)

\* A build with a target outside Main, and an ID of Main that is pointed to by
\* an ID visited before it.
C19_Witness ==
  /\ AfterCreate
  /\ \E o \in NonNullOccurrences : OccValue(o) \notin MainIDs
  /\ Len(relations[1].relations_from_pointers) > Cardinality(MainIDs)

(* ------------------------------ C20 ------------------------------------- *)

\* C20: after a build, an ID that k >= 1 discovered pointers of one ID point
\* to has exactly one entry, the to_ids of the source hold k items stamped
\* with it, and its from_ids hold one item per discovered pointer to it, k of
\* them from that source.
C20_RepeatedPointersKeepEveryItem ==
  AfterCreate =>
    \A S \in MainIDs, T \in IDs :
      LET k == Cardinality({o \in NonNullOccurrences : o[1] = S /\ OccValue(o) = T})
      IN  k > 0 =>
            /\ Cardinality(EntriesOf(T)) = 1
            /\ \A e \in EntriesOf(S) :
                 CountIn(ToItems(e), LAMBDA it : it.session_uuid = session_uuid(T)) = k
            /\ \A e \in EntriesOf(T) :
                 /\ CountIn(FromItems(e), LAMBDA it : it.id_pointer = <<"from", S>>) = k
                 /\ Len(FromItems(e))
                      = Cardinality({o \in NonNullOccurrences : OccValue(o) = T})

\* A build where two pointers of ID 3 point to the same ID, which another ID
\* points to as well.
C20_Witness ==
  /\ AfterCreate
  /\ 3 \in MainIDs
  /\ id_pointers[3][1] # NULL
  /\ id_pointers[3][1] = id_pointers[3][2]
  /\ \E o \in NonNullOccurrences : o[1] # 3 /\ OccValue(o) = id_pointers[3][1]

(* ------------------------------ C21 ------------------------------------- *)

\* The item pointers held by the entries and by the items of an index.
ItemPointers(rel) ==
  {rel.relations_from_pointers[i].to_ids : i \in 1..Len(rel.relations_from_pointers)}
  \cup
  {rel.relations_from_pointers[i].from_ids : i \in 1..Len(rel.relations_from_pointers)}
  \cup
  {rel.entry_items_pool[k].next : k \in 1..Len(rel.entry_items_pool)}

\* C21: while bmain->relations is not NULL its mempool is live and every item
\* pointer of an entry or of an item is NULL or an item of that mempool; when
\* bmain->relations is NULL no mempool is live and no entry is left.
C21_ItemsAreOfTheLivePool ==
  /\ Built =>
       /\ heap["BLI_mempool"] = 1
       /\ ItemPointers(relations[1]) \subseteq {NULL} \cup (1..Len(relations[1].entry_items_pool))
  /\ ~Built => heap["BLI_mempool"] = 0

\* An index with items, built over an index that was freed by the rebuild.
C21_Witness ==
  /\ last_op \in {"create_twice", "create_stale", "create_tagged"}
  /\ Built
  /\ Len(relations[1].entry_items_pool) > 1

(* ------------------------------ C22 ------------------------------------- *)

\* The non-NULL pointers of an ID that the build walks, in the order in which
\* BKE_library_foreach_ID_link reports them.
RECURSIVE DiscoveredFields(_, _)
DiscoveredFields(id, fld) ==
  IF fld > Len(IDPointerFields(GS(id))) THEN <<>>
  ELSE (IF fld \in WalkedFields(id) /\ id_pointers[id][fld] # NULL
          THEN << fld >> ELSE <<>>)
       \o DiscoveredFields(id, fld + 1)

\* The to_ids items of an ID in the order of discovery, by their id_pointer.
DiscoveredTo(id) ==
  IF id \in MainIDs
    THEN [k \in 1..Len(DiscoveredFields(id, 1)) |-> <<"to", id, DiscoveredFields(id, 1)[k]>>]
    ELSE <<>>

\* The from_ids items of an ID in the order of discovery, by their id_pointer:
\* the IDs of Main in the order of the build loop, their pointers in order.
RECURSIVE DiscoveredFrom(_, _)
DiscoveredFrom(target, n) ==
  LET ids == ForeachMainID(listbases) IN
  IF n > Len(ids) THEN <<>>
  ELSE LET flds == SelectSeq(DiscoveredFields(ids[n], 1),
                             LAMBDA fld : id_pointers[ids[n]][fld] = target)
       IN  [k \in 1..Len(flds) |-> <<"from", ids[n]>>] \o DiscoveredFrom(target, n + 1)

ItemPointersOf(items) == [k \in 1..Len(items) |-> items[k].id_pointer]

\* C22 (as claimed): after a build, the to_ids and from_ids lists of every
\* entry hold their items, from the head, in the order of their discovery.
C22_ListsInDiscoveryOrder ==
  AfterCreate =>
    \A i \in 1..Len(relations[1].relations_from_pointers) :
      LET e == relations[1].relations_from_pointers[i]
      IN  /\ ItemPointersOf(ToItems(e)) = DiscoveredTo(e.key)
          /\ ItemPointersOf(FromItems(e)) = DiscoveredFrom(e.key, 1)

\* C22 (amended): after a build, the to_ids and from_ids lists of every entry
\* hold their items, from the head, in the reverse of the order of their
\* discovery: every new item is linked in as the head of its list.
C22_ListsInReverseDiscoveryOrder ==
  AfterCreate =>
    \A i \in 1..Len(relations[1].relations_from_pointers) :
      LET e == relations[1].relations_from_pointers[i]
      IN  /\ ItemPointersOf(ToItems(e)) = Reverse(DiscoveredTo(e.key))
          /\ ItemPointersOf(FromItems(e)) = Reverse(DiscoveredFrom(e.key, 1))

\* A build that found two pointers in one ID, and pointers to one ID in two IDs.
C22_Witness ==
  /\ AfterCreate
  /\ \E e \in UNION {EntriesOf(id) : id \in IDs} :
       /\ Len(ToItems(e)) > 1
       /\ ToItems(e)[1].id_pointer # ToItems(e)[2].id_pointer
  /\ \E e \in UNION {EntriesOf(id) : id \in IDs} :
       /\ Len(FromItems(e)) > 1
       /\ FromItems(e)[1].id_pointer # FromItems(e)[2].id_pointer

(* ------------------------------ C23 ------------------------------------- *)

\* The pointer fields of an ID that are UI fields.
UIFields(id) ==
  {fld \in 1..Len(IDPointerFields(GS(id))) : IDPointerFields(GS(id))[fld].ui}

\* The to_ids item of an index for a pointer field of an ID.
HasToItem(rel, id, fld) ==
  \E k \in 1..Len(rel.entry_items_pool) : rel.entry_items_pool[k].id_pointer = <<"to", id, fld>>

\* C23: a relations_create(flag) leaves relations->flag = flag, walks every ID
\* with IDWALK_READONLY, with IDWALK_INCLUDE_UI exactly when flag has
\* MAINIDRELATIONS_INCLUDE_UI, and leaves an item for a non-NULL UI pointer
\* of an ID of Main exactly when flag has MAINIDRELATIONS_INCLUDE_UI.
C23_FlagStoredAndUIOnlyOnRequest ==
  [][ (last_op' \in CreateOps) =>
        \A flag \in {{}, {"MAINIDRELATIONS_INCLUDE_UI"}} :
          BKE_main_relations_create(flag) =>
            /\ relations'[1].flag = flag
            /\ "IDWALK_READONLY" \in idwalk_flag(flag)
            /\ "IDWALK_INCLUDE_UI" \in idwalk_flag(flag)
                 <=> "MAINIDRELATIONS_INCLUDE_UI" \in flag
            /\ \A id \in MainIDs, fld \in 1..3 :
                 (fld \in UIFields(id) /\ id_pointers[id][fld] # NULL) =>
                   (HasToItem(relations'[1], id, fld)
                      <=> "MAINIDRELATIONS_INCLUDE_UI" \in flag) ]_vars

\* A build without MAINIDRELATIONS_INCLUDE_UI of a Main whose ID 3 has a
\* non-NULL UI pointer, after a build with it.
C23_Witness ==
  /\ last_op = "create_twice"
  /\ relations[1].flag = {}
  /\ 3 \in MainIDs
  /\ id_pointers[3][3] # NULL
  /\ ~HasToItem(relations[1], 3, 3)
  /\ HasToItem(relations[1], 3, 1)

(* ------------------------------ C25 ------------------------------------- *)

\* What a reader finds in the index: per entry its key, its stamp and the
\* items of its two lists, from their heads.
IndexItems ==
  IF relations = NoRelations THEN <<>>
  ELSE [i \in 1..Len(relations[1].relations_from_pointers) |->
          LET e == relations[1].relations_from_pointers[i]
          IN  [key |-> e.key, session_uuid |-> e.session_uuid,
               to_ids |-> ListItems(relations[1].entry_items_pool, e.to_ids),
               from_ids |-> ListItems(relations[1].entry_items_pool, e.from_ids)]]

WithoutTags(rels) ==
  IF rels = NoRelations THEN rels
  ELSE [rels EXCEPT ![1].relations_from_pointers =
          [i \in 1..Len(@) |-> [@[i] EXCEPT !.tags = {}]]]

\* C28: a tag_set(tag, value) leaves every bit outside tag of every entry as
\* it was, and changes nothing else: the same entries, lists, items, flag and
\* mempool, the same allocations, the same Main.
C28_TagSetChangesOnlyItsBits ==
  [][ \A tag \in (SUBSET MainIDRelationsEntryTags) \ {{}}, value \in BOOLEAN :
        BKE_main_relations_tag_set(tag, value) =>
          /\ WithoutTags(relations') = WithoutTags(relations)
          /\ \A i \in 1..Len(EntryTags(relations)) :
               EntryTags(relations')[i] \ tag = EntryTags(relations)[i] \ tag
          /\ UNCHANGED <<listbases, id_pointers, session_uuids, heap, double_free>> ]_vars

\* A tag_set(tag, false) on an index with items whose entries had a bit
\* outside tag set.
C28_Witness ==
  /\ tag_pair.phase = 2
  /\ Len(relations[1].entry_items_pool) > 0
  /\ \A i \in 1..Len(tag_pair.before) :
       /\ tag_pair.before[i] \ tag_pair.tag # {}
       /\ EntryTags(relations)[i] = tag_pair.before[i] \ tag_pair.tag

(* ------------------------------ C24 ------------------------------------- *)

\* C24: a call of relations_create, relations_free, tag_set or gset_create
\* leaves the ListBases of Main (its IDs and their order), the session_uuid
\* of every ID and every ID pointer as they were.
C24_CallsLeaveMainAlone ==
  [][ (last_op' \in CreateOps \cup FreeOps \cup {"tag_set", "gset_create"}) =>
        /\ listbases' = listbases
        /\ MainIDs' = MainIDs
        /\ session_uuids' = session_uuids
        /\ id_pointers' = id_pointers ]_vars

\* A gset_create on a Main with non-NULL pointers whose relations were built
\* and tagged.
C24_Witness ==
  /\ last_op = "gset_create"
  /\ Built
  /\ Len(relations[1].entry_items_pool) > 0
  /\ \E i \in 1..Len(EntryTags(relations)) : EntryTags(relations)[i] # {}

(* ------------------------------ C27 ------------------------------------- *)

\* The positions of a thread inside relations_create, relations_free, tag_set.
OpPositions == {"create", "create_loop", "free", "free_reset", "tag_set"}

\* C27: no step of relations_create, relations_free or tag_set changes
\* bmain->lock; a thread that took the lock holds it through the call, its
\* next step in the call never waits, and it reaches the end of the call and
\* of BKE_main_unlock.
C27_CallsLeaveTheLockAlone ==
  /\ [][ \A t \in Threads : OpStep(t) => lock' = lock ]_vars
  /\ [](\A t \in Threads :
          (thread[t].locking /\ thread[t].pc \in OpPositions /\ ~crashed) =>
            /\ lock = t
            /\ ENABLED OpStep(t))
  /\ [](\A t \in Threads :
          (thread[t].pc = "unlock" /\ ~crashed) => ENABLED BKE_main_unlock(t))
  /\ \A t \in Threads : (lock = t) ~> (thread[t].pc = "idle")

\* A thread holds the lock inside relations_free while the other waits for it.
C27_Witness ==
  /\ thread["t1"].locking
  /\ thread["t1"].pc = "free_reset"
  /\ lock = "t1"
  /\ thread["t2"].pc = "lock"


(* ------------------------------ C26 ------------------------------------- *)

\* The IDs of Main that the running build has walked: those before the
\* position of its loop.
Visited ==
  LET ids == ForeachMainID(listbases)
  IN  IF thread[Builder].pc = "create_loop" THEN SubSeq(ids, 1, thread[Builder].pos - 1)
      ELSE IF thread[Builder].pc = "idle" /\ Built THEN ids
      ELSE <<>>

\* The pool items that record a pointer of this ID seen by the callback.
CallbackItems(id) ==
  LET pool == relations[1].entry_items_pool
  IN  {k \in 1..Len(pool) : pool[k].id_pointer[1] = "to" /\ pool[k].id_pointer[2] = id}

\* C26: a build over a Main that does not change ends, whatever the pointers
\* of its IDs (to themselves, to each other in a cycle): the loop moves on by
\* one ID of Main per turn, every ID walked so far has one entry and one item
\* per non-NULL pointer walked, no ID is walked before its turn, and an ID that
\* is only pointed to is never walked.
C26_BuildVisitsEachIDOnceAndEnds ==
  /\ [][ (thread[Builder].pc = "create_loop" /\ thread'[Builder].pc = "create_loop")
           => /\ thread'[Builder].pos = thread[Builder].pos + 1
              /\ thread'[Builder].pos <= Len(ForeachMainID(listbases)) ]_vars
  /\ [](thread[Builder].pc \in {"create_loop", "idle"} /\ Built =>
          /\ \A id \in Range(Visited) :
               /\ Cardinality(EntriesOf(id)) = 1
               /\ Cardinality(CallbackItems(id)) = Len(DiscoveredFields(id, 1))
               /\ \A e \in EntriesOf(id) :
                    ItemPointersOf(ToItems(e)) = Reverse(DiscoveredTo(id))
          /\ \A id \in IDs \ Range(Visited) :
               /\ CallbackItems(id) = {}
               /\ \A e \in EntriesOf(id) : e.to_ids = NULL)
  /\ (thread[Builder].pc = "create") ~> (thread[Builder].pc = "idle" /\ IndexComplete)

\* A build has ended on a Main whose two objects point to each other.
C26_Witness ==
  /\ thread[Builder].pc = "idle"
  /\ Visited = <<1, 2, 3>>
  /\ id_pointers[1] = <<2>>
  /\ id_pointers[2] = <<1>>
  /\ Cardinality(CallbackItems(1)) = 1
  /\ Cardinality(CallbackItems(2)) = 1

=============================================================================
